---- MODULE Spec2Model ----
(***************************************************************************)
(* Model of aws-s3-file-segregation (src/main.py): the paginated listing   *)
(* of an S3 prefix (list_s3_get_files), the classification of each file    *)
(* name (extract_datetime_from_filename), the copy-then-delete move        *)
(* (move_files_to_s3) run on a ThreadPoolExecutor, and the driver          *)
(* (start_segregation) with the script's exit status (__main__).           *)
(***************************************************************************)
EXTENDS Integers, Sequences, FiniteSets, TLC

(* ---- bounds of the model ---- *)
\* number of keys that can exist under the source prefix (lexicographic ranks)
MaxKeys == 3
\* config n_keys: MaxKeys of one list_objects_v2 call
n_keys == 2
\* config n_loops: maximum number of pages of one run
n_loops == 2
\* largest config n_workers (max_workers of the ThreadPoolExecutor) of the model
MaxWorkers == 2
\* longest file name given to extract_datetime_from_filename called on its own
MaxNameLen == 3

None == "None"

(* ---- the object store ---- *)
\* keys under the source prefix, in the lexicographic order S3 lists them in
SrcKeys == 1..MaxKeys

\* base names of the objects: three characters over {a, 0, 1, 2}
FileNames == { <<"a", "1", "1">>, <<"a", "a", "a">> }

\* the match_pattern of the model's configuration: r"(\d)(\d)"
Pattern == "(\\d)(\\d)"
\* the datetime_format of the model's configuration: "%m%d"
Format == "%m%d"
\* the s3_segregated_dir template of the model: "s3://out/seg/%m/"
SegTemplate == "seg/%m/"
\* the s3_error_dir of the model: "s3://out/err/"
s3_error_dir == <<"err", 0>>

Digits == {"0", "1", "2"}
DigitVal(c) == CASE c = "0" -> 0 [] c = "1" -> 1 [] c = "2" -> 2 [] OTHER -> -1

\* datetime values the model's names and clock can produce (month, day)
Dates == [m : 1..2, d : 1..2]
\* the values of datetime.now() - time_delay at the start of a run
DefaultDates == { [m |-> 2, d |-> 2] }
\* destination prefixes: the error prefix and the formatted segregated template
Dirs == {s3_error_dir} \cup { <<"seg", m>> : m \in 1..2 }
DestKeys == Dirs \X FileNames

VARIABLES
    src,            \* source key -> "absent" | "file" | "marker" (key ends in '/')
    name,           \* source key -> os.path.basename of the key
    dst,            \* destination key -> 0 (no object) or the source key whose content it holds
    match_pattern,  \* dict_config["match_pattern"]: None or Pattern
    datetime_format,\* dict_config["datetime_format"]: None or Format
    n_workers,      \* dict_config["n_workers"]
    default_date,   \* start_segregation: datetime.now() - time_delay
    pc,             \* position of start_segregation
    count_loop,     \* list_s3_get_files: count_loop
    is_empty,       \* list_s3_get_files: is_empty
    files,          \* the page the generator yielded last
    idx,            \* index in files of the next file of the for loop
    futures,        \* the futures of the current page, in submission order
    listCalls,      \* number of list_objects_v2 calls issued
    pages,          \* number of pages yielded
    yielded,        \* source keys yielded in some page
    submitted,      \* number of executor.submit calls
    listFailed,     \* a list_objects_v2 call raised
    classRaised,    \* extract_datetime_from_filename raised out of the for loop
    moveFailed,     \* some move_files_to_s3 call logged "Error moving"
    src0,           \* src at the start of the run
    dests,          \* destination directories passed to executor.submit in the run
    attempts,       \* source key -> number of move tasks submitted for it in the run
    args_datetime,  \* args.datetime: <<>> (not given) or <<the datetime given with --datetime>>
    process_date,   \* dict_config["process_date"]
    ex_filename,    \* extract_datetime_from_filename called on its own: filename
    ex_format,      \* extract_datetime_from_filename called on its own: datetime_format
    ex_result,      \* extract_datetime_from_filename called on its own: its outcome
    exit_code       \* exit status of the process; -1 while running

vars == <<src, name, dst, match_pattern, datetime_format, n_workers, default_date, pc,
          count_loop, is_empty, files, idx, futures, listCalls, pages, yielded,
          submitted, listFailed, classRaised, moveFailed, src0, dests, attempts,
          args_datetime, process_date, ex_filename, ex_format, ex_result, exit_code>>

storeVars == <<src, dst>>
configVars == <<name, match_pattern, datetime_format, n_workers, default_date, src0,
                args_datetime, process_date, ex_filename, ex_format, ex_result>>
subVars == <<submitted, dests, attempts>>
genVars == <<count_loop, is_empty, files, idx, listCalls, pages, yielded>>

(* ---- pure functions ---- *)
\* os.path.join(dest_dir, os.path.basename(source_key))
DestKey(dir, k) == <<dir, name[k]>>

\* pattern.search(filename): leftmost position of two consecutive digits, 0 if none
Search(filename) ==
    LET hits == { i \in 1..(Len(filename) - 1) :
                    filename[i] \in Digits /\ filename[i + 1] \in Digits }
    IN  IF hits = {} THEN 0 ELSE CHOOSE i \in hits : \A j \in hits : i <= j

\* strptime without the range check of the fields: month 0 and day 0 are accepted
Strptime_NoRangeCheck(date_str, fmt) ==
    IF fmt = None THEN [kind |-> "raise", date |-> None]
    ELSE IF Len(date_str) = 2 /\ DigitVal(date_str[1]) >= 0 /\ DigitVal(date_str[2]) >= 0
         THEN [kind |-> "date",
               date |-> [m |-> DigitVal(date_str[1]), d |-> DigitVal(date_str[2])]]
         ELSE [kind |-> "ValueError", date |-> None]

\* datetime.strptime(date_str, "%m%d"): month and day are each one digit 1..9
Strptime(date_str, fmt) ==
    IF fmt = None THEN [kind |-> "raise", date |-> None]
    ELSE IF Len(date_str) = 2 /\ DigitVal(date_str[1]) >= 1 /\ DigitVal(date_str[2]) >= 1
         THEN [kind |-> "date",
               date |-> [m |-> DigitVal(date_str[1]), d |-> DigitVal(date_str[2])]]
         ELSE [kind |-> "ValueError", date |-> None]

\* the groups are joined in reverse order
extract_datetime_groups_reversed(filename, regex_pattern, fmt) ==
    LET i == Search(filename) IN
    IF i = 0
    THEN [kind |-> "none", date |-> None, log |-> "no match found"]
    ELSE LET date_str == <<filename[i + 1]>> \o <<filename[i]>>
             r == Strptime(date_str, fmt)
         IN  CASE r.kind = "date" -> [kind |-> "date", date |-> r.date, log |-> ""]
               [] r.kind = "ValueError" ->
                     [kind |-> "none", date |-> None, log |-> "fail to convert date"]
               [] OTHER -> [kind |-> "raise", date |-> None, log |-> ""]

extract_datetime_from_filename(filename, regex_pattern, fmt) ==
    LET i == Search(filename) IN
    IF i = 0
    THEN [kind |-> "none", date |-> None, log |-> "no match found"]
    ELSE LET date_str == <<filename[i]>> \o <<filename[i + 1]>>
             r == Strptime(date_str, fmt)
         IN  CASE r.kind = "date" -> [kind |-> "date", date |-> r.date, log |-> ""]
               [] r.kind = "ValueError" ->
                     [kind |-> "none", date |-> None, log |-> "fail to convert date"]
               [] OTHER -> [kind |-> "raise", date |-> None, log |-> ""]

\* _date.strftime(s3_segregated_dir) with the template "seg/%m/"
Strftime(date, template) == <<"seg", date.m>>

\* datetime.now() - time_delay read at the current point of the run: the clock passes
\* a month boundary while the first page is moved
NowMinusDelay == IF count_loop <= 1 THEN default_date ELSE [m |-> 1, d |-> 1]

\* the default date is computed inside the for loop, once per file
Classify_DatePerFile(k) ==
    IF match_pattern = None
    THEN [kind |-> "date", date |-> NowMinusDelay, log |-> ""]
    ELSE extract_datetime_from_filename(name[k], match_pattern, datetime_format)

\* start_segregation lines 329-342: the classification of one file of the page
Classify(k) ==
    IF match_pattern = None
    THEN [kind |-> "date", date |-> default_date, log |-> ""]
    ELSE extract_datetime_from_filename(name[k], match_pattern, datetime_format)

\* an unclassified file falls back to the default date instead of the error directory
Route_DefaultsUnclassified(c) ==
    Strftime(IF c.kind = "none" THEN default_date ELSE c.date, SegTemplate)

\* the destination_dir start_segregation passes to move_files_to_s3
Route(c) == IF c.kind = "none" THEN s3_error_dir ELSE Strftime(c.date, SegTemplate)

\* ascending sequence of a finite set of keys
RECURSIVE SortedSeq(_)
SortedSeq(S) ==
    IF S = {} THEN <<>>
    ELSE LET lo == CHOOSE x \in S : \A y \in S : x <= y
         IN  <<lo>> \o SortedSeq(S \ {lo})

\* response['Contents'] of list_objects_v2(Prefix, MaxKeys): the first MaxKeys keys
Contents(store, maxKeys) ==
    LET present == { k \in SrcKeys : store[k] # "absent" }
    IN  SortedSeq({ k \in present : Cardinality({ j \in present : j < k }) < maxKeys })

\* the keys ending in '/' are not skipped
Paths_KeepMarkers(store, contents) == contents

\* list_s3_get_files lines 243-251: the keys that do not end in '/'
Paths(store, contents) == SelectSeq(contents, LAMBDA k : store[k] = "file")

(* ---- the worker pool ---- *)
Tasks == 1..Len(futures)
Running == { i \in Tasks : futures[i].st \in {"copy", "delete"} }
AllDone == \A i \in Tasks : futures[i].st = "done"
NewTask(k, dir) == [src |-> k, dest |-> dir, st |-> "pending", copy |-> "none", del |-> "none"]

\* the state at the call of start_segregation, whatever the command line was
InitRun ==
    /\ src \in [SrcKeys -> {"absent", "marker", "file"}]
    /\ name \in [SrcKeys -> FileNames]
    /\ \A k \in SrcKeys : src[k] # "file" => name[k] = <<"a", "a", "a">>
    /\ \A k \in SrcKeys : src[k] = "absent" => \A j \in SrcKeys : j > k => src[j] = "absent"
    /\ src0 = src
    /\ dst = [x \in DestKeys |-> 0]
    /\ \E cfg \in { <<None, Format>>, <<Pattern, Format>>, <<Pattern, None>> } :
          /\ match_pattern = cfg[1]
          /\ datetime_format = cfg[2]
    /\ n_workers \in 1..MaxWorkers
    /\ default_date \in DefaultDates
    /\ pc = "list"
    /\ count_loop = 1
    /\ is_empty = FALSE
    /\ files = <<>>
    /\ idx = 1
    /\ futures = <<>>
    /\ listCalls = 0
    /\ pages = 0
    /\ yielded = {}
    /\ submitted = 0
    /\ listFailed = FALSE
    /\ classRaised = FALSE
    /\ moveFailed = FALSE
    /\ dests = {}
    /\ attempts = [k \in SrcKeys |-> 0]
    /\ ex_filename = <<>>
    /\ ex_format = None
    /\ ex_result = [kind |-> "not called", date |-> None, log |-> ""]
    /\ exit_code = -1

\* a run started without --datetime: process_date is datetime.now() - time_delay
Init ==
    /\ InitRun
    /\ args_datetime = <<>>
    /\ process_date = default_date

\* a run started with --datetime: process_date is the parsed argument
InitArgs ==
    /\ InitRun
    /\ \E d \in Dates :
          /\ args_datetime = <<d>>
          /\ process_date = d

(* ---- list_s3_get_files, resumed by the for loop of start_segregation ---- *)
\* the while condition with the page count off by one
LoopGuard_OffByOne == count_loop <= n_loops + 1 /\ ~is_empty

\* the while condition of the generator
LoopGuard == count_loop <= n_loops /\ ~is_empty

\* the generator without its two emptiness checks: an empty listing is yielded as a page
ListPage_NoEmptyCheck ==
    /\ pc = "list"
    /\ LoopGuard
    /\ listCalls' = listCalls + 1
    /\ LET paths == Paths(src, Contents(src, n_keys))
       IN  /\ count_loop' = count_loop + 1
           /\ files' = paths
           /\ idx' = 1
           /\ futures' = <<>>
           /\ pages' = pages + 1
           /\ yielded' = yielded \cup { paths[i] : i \in 1..Len(paths) }
           /\ pc' = IF Len(paths) = 0 THEN "wait" ELSE "classify"
           /\ UNCHANGED is_empty
    /\ UNCHANGED <<storeVars, configVars, subVars, listFailed, classRaised, moveFailed, exit_code>>

\* one list_objects_v2 call that returns; an empty or all-marker listing ends the generator
ListPage ==
    /\ pc = "list"
    /\ LoopGuard
    /\ listCalls' = listCalls + 1
    /\ LET contents == Contents(src, n_keys)
           paths == Paths(src, contents)
       IN  IF Len(contents) = 0 \/ Len(paths) = 0
           THEN /\ is_empty' = TRUE
                /\ pc' = "shutdown"
                /\ UNCHANGED <<count_loop, files, idx, futures, pages, yielded>>
           ELSE /\ count_loop' = count_loop + 1
                /\ files' = paths
                /\ idx' = 1
                /\ futures' = <<>>
                /\ pages' = pages + 1
                /\ yielded' = yielded \cup { paths[i] : i \in 1..Len(paths) }
                /\ pc' = "classify"
                /\ UNCHANGED is_empty
    /\ UNCHANGED <<storeVars, configVars, subVars, listFailed, classRaised, moveFailed, exit_code>>

\* list_objects_v2 raises and the generator swallows the exception and tries again
ListRaise_Swallowed ==
    /\ pc = "list"
    /\ LoopGuard
    /\ listCalls' = listCalls + 1
    /\ listFailed' = TRUE
    /\ count_loop' = count_loop + 1
    /\ UNCHANGED <<storeVars, configVars, pc, is_empty, files, idx, futures,
                   pages, yielded, subVars, classRaised, moveFailed, exit_code>>

\* list_objects_v2 raises: the exception leaves the generator, the for loop and the with block
ListRaise ==
    /\ pc = "list"
    /\ LoopGuard
    /\ listCalls' = listCalls + 1
    /\ listFailed' = TRUE
    /\ pc' = "shutdown"
    /\ UNCHANGED <<storeVars, configVars, count_loop, is_empty, files, idx, futures,
                   pages, yielded, subVars, classRaised, moveFailed, exit_code>>

\* the while condition is false: the generator returns and the for loop ends
GenReturn ==
    /\ pc = "list"
    /\ ~LoopGuard
    /\ pc' = "shutdown"
    /\ UNCHANGED <<storeVars, configVars, genVars, futures, subVars, listFailed,
                   classRaised, moveFailed, exit_code>>

\* every file of the page is submitted twice
Submit_Twice ==
    /\ pc = "classify"
    /\ LET c == Classify(files[idx]) IN
          /\ c.kind # "raise"
          /\ futures' = Append(Append(futures, NewTask(files[idx], Route(c))),
                               NewTask(files[idx], Route(c)))
          /\ dests' = dests \cup {Route(c)}
    /\ submitted' = submitted + 2
    /\ attempts' = [attempts EXCEPT ![files[idx]] = @ + 2]
    /\ idx' = idx + 1
    /\ pc' = IF idx = Len(files) THEN "wait" ELSE "classify"
    /\ UNCHANGED <<storeVars, configVars, count_loop, is_empty, files, listCalls, pages,
                   yielded, listFailed, classRaised, moveFailed, exit_code>>

(* ---- start_segregation: the for loop over the files of the page ---- *)
Submit ==
    /\ pc = "classify"
    /\ LET c == Classify(files[idx]) IN
          /\ c.kind # "raise"
          /\ futures' = Append(futures, NewTask(files[idx], Route(c)))
          /\ dests' = dests \cup {Route(c)}
    /\ submitted' = submitted + 1
    /\ attempts' = [attempts EXCEPT ![files[idx]] = @ + 1]
    /\ idx' = idx + 1
    /\ pc' = IF idx = Len(files) THEN "wait" ELSE "classify"
    /\ UNCHANGED <<storeVars, configVars, count_loop, is_empty, files, listCalls, pages,
                   yielded, listFailed, classRaised, moveFailed, exit_code>>

\* an exception other than ValueError leaves extract_datetime_from_filename and the with block
ClassifyRaise ==
    /\ pc = "classify"
    /\ Classify(files[idx]).kind = "raise"
    /\ classRaised' = TRUE
    /\ pc' = "shutdown"
    /\ UNCHANGED <<storeVars, configVars, genVars, futures, subVars, listFailed, moveFailed,
                   exit_code>>

\* the for loop goes on without waiting for the futures of the page
WaitReturn_NoBarrier ==
    /\ pc = "wait"
    /\ pc' = "list"
    /\ UNCHANGED <<storeVars, configVars, genVars, futures, subVars, listFailed,
                   classRaised, moveFailed, exit_code>>

\* wait(futures) returns once every future of the page is done
WaitReturn ==
    /\ pc = "wait"
    /\ AllDone
    /\ pc' = "list"
    /\ UNCHANGED <<storeVars, configVars, genVars, futures, subVars, listFailed,
                   classRaised, moveFailed, exit_code>>

(* ---- the ThreadPoolExecutor and move_files_to_s3 ---- *)
\* every submitted task gets a thread of its own at once
Start_Unbounded(i) ==
    /\ pc \notin {"crashed", "done"}
    /\ futures[i].st = "pending"
    /\ \A j \in 1..(i - 1) : futures[j].st # "pending"
    /\ futures' = [futures EXCEPT ![i].st = "copy"]
    /\ UNCHANGED <<storeVars, configVars, genVars, pc, subVars, listFailed,
                   classRaised, moveFailed, exit_code>>

\* move_files_to_s3 with the two calls swapped: the task begins with delete_object
Start_DeleteFirst(i) ==
    /\ pc \notin {"crashed", "done"}
    /\ futures[i].st = "pending"
    /\ \A j \in 1..(i - 1) : futures[j].st # "pending"
    /\ Cardinality(Running) < n_workers
    /\ futures' = [futures EXCEPT ![i].st = "delete"]
    /\ UNCHANGED <<storeVars, configVars, genVars, pc, subVars, listFailed,
                   classRaised, moveFailed, exit_code>>

\* a free worker takes the oldest queued task
Start(i) ==
    /\ pc \notin {"crashed", "done"}
    /\ futures[i].st = "pending"
    /\ \A j \in 1..(i - 1) : futures[j].st # "pending"
    /\ Cardinality(Running) < n_workers
    /\ futures' = [futures EXCEPT ![i].st = "copy"]
    /\ UNCHANGED <<storeVars, configVars, genVars, pc, subVars, listFailed,
                   classRaised, moveFailed, exit_code>>

\* copy_object returns: the destination key holds the content of the source
CopyOk(i) ==
    /\ pc # "crashed"
    /\ futures[i].st = "copy"
    /\ src[futures[i].src] = "file"
    /\ dst' = [dst EXCEPT ![DestKey(futures[i].dest, futures[i].src)] = futures[i].src]
    /\ futures' = [futures EXCEPT ![i].st = "delete", ![i].copy = "ok"]
    /\ UNCHANGED <<src, configVars, genVars, pc, subVars, listFailed, classRaised, moveFailed, exit_code>>

\* copy_object raises, the error is logged and the task goes on to delete_object
CopyRaise_ThenDelete(i) ==
    /\ pc # "crashed"
    /\ futures[i].st = "copy"
    /\ futures' = [futures EXCEPT ![i].st = "delete", ![i].copy = "fail"]
    /\ moveFailed' = TRUE
    /\ UNCHANGED <<storeVars, configVars, genVars, pc, subVars, listFailed,
                   classRaised, exit_code>>

\* copy_object raises: caught by the except of move_files_to_s3, the task ends
CopyRaise(i) ==
    /\ pc # "crashed"
    /\ futures[i].st = "copy"
    /\ futures' = [futures EXCEPT ![i].st = "done", ![i].copy = "fail"]
    /\ moveFailed' = TRUE
    /\ UNCHANGED <<storeVars, configVars, genVars, pc, subVars, listFailed,
                   classRaised, exit_code>>

\* delete_object returns without the source key being removed
DeleteOk_NoEffect(i) ==
    /\ pc # "crashed"
    /\ futures[i].st = "delete"
    /\ futures' = [futures EXCEPT ![i].st = "done", ![i].del = "ok"]
    /\ UNCHANGED <<storeVars, configVars, genVars, pc, subVars, listFailed, classRaised,
                   moveFailed, exit_code>>

\* delete_object returns: the source key is gone
DeleteOk(i) ==
    /\ pc # "crashed"
    /\ futures[i].st = "delete"
    /\ src' = [src EXCEPT ![futures[i].src] = "absent"]
    /\ futures' = [futures EXCEPT ![i].st = "done", ![i].del = "ok"]
    /\ UNCHANGED <<dst, configVars, genVars, pc, subVars, listFailed, classRaised, moveFailed, exit_code>>

\* delete_object raises and the exception reaches start_segregation
DeleteRaise_Propagates(i) ==
    /\ pc # "crashed"
    /\ futures[i].st = "delete"
    /\ futures' = [futures EXCEPT ![i].st = "done", ![i].del = "fail"]
    /\ moveFailed' = TRUE
    /\ pc' = "shutdown"
    /\ UNCHANGED <<storeVars, configVars, genVars, subVars, listFailed,
                   classRaised, exit_code>>

\* delete_object raises: caught by the except of move_files_to_s3, the task ends
DeleteRaise(i) ==
    /\ pc # "crashed"
    /\ futures[i].st = "delete"
    /\ futures' = [futures EXCEPT ![i].st = "done", ![i].del = "fail"]
    /\ moveFailed' = TRUE
    /\ UNCHANGED <<storeVars, configVars, genVars, pc, subVars, listFailed,
                   classRaised, exit_code>>

(* ---- the end of the run ---- *)
\* the with block exits (shutdown(wait=True)), a pending exception is logged, the function returns
Return ==
    /\ pc = "shutdown"
    /\ AllDone
    /\ pc' = "returned"
    /\ UNCHANGED <<storeVars, configVars, genVars, futures, subVars, listFailed,
                   classRaised, moveFailed, exit_code>>

\* __main__ logs "Finished file segregation" and the script ends
Exit ==
    /\ pc = "returned"
    /\ pc' = "done"
    /\ exit_code' = 0
    /\ UNCHANGED <<storeVars, configVars, genVars, futures, subVars, listFailed, classRaised,
                   moveFailed>>

\* the process is killed at any point of the run: its memory is gone, the store stays
Crash ==
    /\ pc \notin {"done", "crashed"}
    /\ pc' = "crashed"
    /\ futures' = <<>>
    /\ files' = <<>>
    /\ idx' = 1
    /\ UNCHANGED <<storeVars, configVars, count_loop, is_empty, listCalls, pages, yielded,
                   subVars, listFailed, classRaised, moveFailed, exit_code>>

Next ==
    \/ ListPage
    \/ ListRaise
    \/ GenReturn
    \/ Submit
    \/ ClassifyRaise
    \/ WaitReturn
    \/ \E i \in Tasks : Start(i)
    \/ \E i \in Tasks : CopyOk(i)
    \/ \E i \in Tasks : CopyRaise(i)
    \/ \E i \in Tasks : DeleteOk(i)
    \/ \E i \in Tasks : DeleteRaise(i)
    \/ Return
    \/ Exit
    \/ Crash

Spec == Init /\ [][Next]_vars

TypeOK ==
    /\ src \in [SrcKeys -> {"absent", "file", "marker"}]
    /\ dst \in [DestKeys -> 0..MaxKeys]
    /\ pc \in {"list", "classify", "wait", "shutdown", "returned", "done", "crashed"}
    /\ count_loop \in 1..(n_loops + 1)

\* the steps of a run that is not killed
NextRun ==
    \/ ListPage \/ ListRaise \/ GenReturn \/ Submit \/ ClassifyRaise \/ WaitReturn
    \/ \E i \in Tasks : Start(i) \/ CopyOk(i) \/ CopyRaise(i) \/ DeleteOk(i) \/ DeleteRaise(i)
    \/ Return \/ Exit

\* threads are scheduled and every S3 call returns or raises
FairSpec == Spec /\ WF_vars(NextRun)

\* the runs of the script started with a --datetime argument
ArgsSpec == InitArgs /\ [][Next]_vars

(* ---- extract_datetime_from_filename called on its own, as its tests call it ---- *)
Chars == Digits \cup {"a"}
\* the file names of at most MaxNameLen characters
Names == UNION { [1..l -> Chars] : l \in 0..MaxNameLen }

\* no run of start_segregation: an empty prefix, nothing listed, nothing submitted
InitExtract ==
    /\ src = [k \in SrcKeys |-> "absent"]
    /\ name = [k \in SrcKeys |-> <<"a", "a", "a">>]
    /\ src0 = src
    /\ dst = [x \in DestKeys |-> 0]
    /\ match_pattern = Pattern
    /\ datetime_format = Format
    /\ n_workers = 1
    /\ default_date \in DefaultDates
    /\ args_datetime = <<>>
    /\ process_date = default_date
    /\ pc = "idle"
    /\ count_loop = 1
    /\ is_empty = FALSE
    /\ files = <<>>
    /\ idx = 1
    /\ futures = <<>>
    /\ listCalls = 0
    /\ pages = 0
    /\ yielded = {}
    /\ submitted = 0
    /\ listFailed = FALSE
    /\ classRaised = FALSE
    /\ moveFailed = FALSE
    /\ dests = {}
    /\ attempts = [k \in SrcKeys |-> 0]
    /\ exit_code = -1
    /\ ex_filename \in Names
    /\ ex_format \in {Format, None}
    /\ ex_result = [kind |-> "not called", date |-> None, log |-> ""]

\* one call extract_datetime_from_filename(filename, match_pattern, datetime_format)
Extract ==
    /\ pc = "idle"
    /\ ex_result.kind = "not called"
    /\ ex_result' = extract_datetime_from_filename(ex_filename, Pattern, ex_format)
    /\ UNCHANGED <<storeVars, name, match_pattern, datetime_format, n_workers, default_date,
                   src0, args_datetime, process_date, ex_filename, ex_format, genVars, pc,
                   futures, subVars, listFailed, classRaised, moveFailed, exit_code>>

ExtractSpec == InitExtract /\ [][Extract]_vars

(* ---- properties ---- *)
Files0 == { k \in SrcKeys : src0[k] = "file" }
Keys0 == { k \in SrcKeys : src0[k] # "absent" }
\* the object that was at source key k is stored at the destination key of its move
AtDestination(k) ==
    LET c == Classify(k) IN c.kind # "raise" /\ dst[DestKey(Route(c), k)] = k
\* some object is stored at the destination key of the move of source key k
DestinationHeld(k) ==
    LET c == Classify(k) IN c.kind # "raise" /\ dst[DestKey(Route(c), k)] # 0

\* C1 as stated: when start_segregation has finished, every object yielded in a page
\* of the run is at its dated destination or at the error destination
C1_AllYieldedRelocated ==
    (pc = "done" /\ ~classRaised /\ ~listFailed) => \A k \in yielded : AtDestination(k)

\* C1 amended: when start_segregation has finished, every object yielded in a page is
\* still at its source key, or its copy succeeded and its destination key holds an object
C1_NoYieldedFileDropped ==
    pc = "done" => \A k \in yielded : src[k] = "file" \/ DestinationHeld(k)

C1_Witness ==
    /\ pc = "done"
    /\ \E k \in yielded : src[k] = "absent" /\ AtDestination(k)
    /\ \E k \in yielded : src[k] = "file" /\ ~DestinationHeld(k)

\* C2: in every reachable state the content of every source object of the run is stored
\* at its source key or at its destination key
C2_NeverLost ==
    \A k \in Files0 : src[k] = "file" \/ AtDestination(k)

\* C3: a task is at or past delete_object only if its copy_object returned; a task whose
\* copy raised issued no delete and its source object is still there; and a source key
\* is gone only if its destination key holds an object
C3_DeleteOnlyAfterCopy ==
    /\ \A i \in Tasks :
          /\ (futures[i].st = "delete" \/ futures[i].del # "none") => futures[i].copy = "ok"
          /\ futures[i].copy = "fail" =>
                futures[i].del = "none" /\ futures[i].st = "done" /\ src[futures[i].src] = "file"
    /\ \A k \in Files0 : src[k] = "absent" => DestinationHeld(k)

C3_Witness ==
    \E i, j \in Tasks :
        /\ futures[i].copy = "ok" /\ futures[i].del = "ok" /\ src[futures[i].src] = "absent"
        /\ futures[j].copy = "fail" /\ futures[j].st = "done"

\* a step in which the copy or the delete of task i raises
FailStep(i) ==
    /\ Len(futures') = Len(futures)
    /\ futures[i].st # "done"
    /\ futures'[i].st = "done"
    /\ futures'[i].copy = "fail" \/ futures'[i].del = "fail"

\* no task is held up: a task that executes has its next S3 call enabled, a queued task
\* waits only behind executing or older queued tasks, and a complete page releases wait
NotBlocked ==
    pc # "crashed" =>
        /\ \A i \in Tasks :
              /\ futures[i].st = "copy" => ENABLED CopyRaise(i) /\ ENABLED CopyOk(i)
              /\ futures[i].st = "delete" => ENABLED DeleteRaise(i) /\ ENABLED DeleteOk(i)
              /\ futures[i].st = "pending" =>
                    \/ ENABLED Start(i)
                    \/ Cardinality(Running) = n_workers
                    \/ \E j \in 1..(i - 1) : futures[j].st = "pending"
        /\ (pc = "wait" /\ AllDone) => ENABLED WaitReturn

\* C4: a step in which a move fails changes nothing but that task (not the position of
\* start_segregation, not a sibling task, not the store); no sibling is ever held up;
\* and wait(futures) is left only for the next page request, once every task is done
C4_MoveIsolation ==
    /\ [][ /\ \A i \in Tasks : FailStep(i) =>
                /\ pc' = pc
                /\ \A j \in Tasks \ {i} : futures'[j] = futures[j]
                /\ UNCHANGED <<storeVars, genVars, subVars, listFailed, classRaised>>
           /\ (pc = "wait" /\ pc' \notin {"wait", "crashed"}) => (pc' = "list" /\ AllDone)
         ]_vars
    /\ []NotBlocked

\* C4, progress: in a run that is not killed, a barrier reached after a failed move is
\* always left for the next page request
C4_Progress ==
    (pc = "wait" /\ moveFailed) ~> (pc = "list" \/ pc = "crashed")

C4_Witness ==
    /\ pc = "list"
    /\ LoopGuard
    /\ n_workers = 1
    /\ \E i, j \in Tasks :
          /\ i < j
          /\ futures[i].copy = "fail" \/ futures[i].del = "fail"
          /\ futures[j].del = "ok"

\* C5: whenever the generator is about to be resumed, and so whenever list_objects_v2 is
\* called, every move submitted for the page before is done
C5_PageBarrier ==
    pc = "list" => AllDone

C5_Witness ==
    /\ pc = "list"
    /\ LoopGuard
    /\ Len(futures) >= 2
    /\ AllDone

\* C6: at most n_workers moves execute at once, the tasks submitted for the page are its
\* files up to the current one, one task each, and at the barrier they are the whole page
C6_BoundedConcurrency ==
    /\ Cardinality(Running) <= n_workers
    /\ pc \in {"classify", "wait"} =>
          /\ Len(futures) = idx - 1
          /\ \A i \in Tasks : futures[i].src = files[i]
          /\ \A i, j \in 1..Len(files) : files[i] = files[j] => i = j
    /\ pc = "wait" => Len(futures) = Len(files)

C6_Witness ==
    /\ pc = "wait"
    /\ Len(files) > n_workers
    /\ Cardinality(Running) = n_workers
    /\ \E i \in Tasks : futures[i].st = "pending"

\* C7: a run yields at most n_loops pages and issues at most n_loops listing calls
C7_MaxPages ==
    pages <= n_loops /\ listCalls <= n_loops

C7_Witness ==
    /\ pc = "done"
    /\ pages = n_loops
    /\ listCalls = n_loops
    /\ moveFailed
    /\ \E k \in SrcKeys : src[k] = "file"

\* the case of C8, in a run whose listing calls and classifications do not raise
C8_Case ==
    /\ pc = "done"
    /\ n_loops >= 2
    /\ ~listFailed
    /\ ~classRaised
    /\ Cardinality(Files0) >= 1

C9_ListFailureStopsRun ==
    [][listFailed =>
          /\ listCalls' = listCalls
          /\ submitted' = submitted
          /\ pages' = pages
          /\ futures' = futures \/ futures' = <<>>]_vars

C9_Witness ==
    /\ listFailed
    /\ pc = "done"
    /\ submitted > 0
    /\ listCalls = 2
    /\ \E k \in SrcKeys : src[k] = "file"

\* C10: a finished run has a non-zero exit status exactly when a listing call failed
C10_ExitStatusTellsFailure ==
    pc = "done" => (listFailed <=> exit_code # 0)

\* C11 as stated: no failure of the classification of a file ends the run; every file
\* of every page is submitted, whatever its classification comes to
C11_ClassificationNeverFatal ==
    /\ ~classRaised
    /\ (pc = "done" /\ ~listFailed) => \A k \in yielded : attempts[k] >= 1

\* C12: every submitted task of an unclassified file has the error directory as its
\* destination, every task of a dated file has the template formatted with its date,
\* and two tasks of files classified alike have the same destination
C12_RoutingDeterminism ==
    \A i \in Tasks :
        LET c == Classify(futures[i].src) IN
        /\ c.kind = "none" => futures[i].dest = s3_error_dir
        /\ c.kind = "date" => futures[i].dest = Strftime(c.date, SegTemplate)
        /\ c.kind # "raise"
        /\ \A j \in Tasks : Classify(futures[j].src) = c => futures[j].dest = futures[i].dest

C12_Witness ==
    \E i, j \in Tasks :
        /\ Classify(futures[i].src).kind = "none"
        /\ futures[i].dest = s3_error_dir
        /\ Classify(futures[j].src).kind = "date"
        /\ futures[j].dest = <<"seg", 1>>

\* C13: without a match_pattern every task of the run, in every page, is submitted with
\* one and the same destination, the template formatted with the default date of the run
C13_OneDefaultDatePerRun ==
    match_pattern = None =>
        /\ Cardinality(dests) <= 1
        /\ \A i \in Tasks : futures[i].dest = Strftime(default_date, SegTemplate)

C13_Witness ==
    /\ match_pattern = None
    /\ pages >= 2
    /\ Cardinality({ k \in SrcKeys : attempts[k] >= 1 }) >= 2
    /\ \E k \in SrcKeys : attempts[k] >= 2
    /\ Cardinality(dests) = 1

\* C14 as stated: with --datetime given and no match_pattern, every task is submitted
\* with the template formatted with the datetime of the argument
C14_DatetimeArgumentUsed ==
    (args_datetime # <<>> /\ match_pattern = None) =>
        \A i \in Tasks : futures[i].dest = Strftime(args_datetime[1], SegTemplate)

\* the pattern is found in the file name at position i: the leftmost two digits in a row
FoundAt(f, i) ==
    /\ i \in 1..(Len(f) - 1)
    /\ f[i] \in Digits /\ f[i + 1] \in Digits
    /\ \A j \in 1..(i - 1) : ~(f[j] \in Digits /\ f[j + 1] \in Digits)
Called == ex_result.kind # "not called"

\* C15: when the pattern is found and the two groups, joined left to right, parse under
\* the format, the call returns exactly that month and day and logs no diagnostic
C15_ExtractReturnsParsedDate ==
    Called =>
        \A i \in 1..MaxNameLen :
            ( /\ FoundAt(ex_filename, i)
              /\ ex_format = Format
              /\ DigitVal(ex_filename[i]) >= 1
              /\ DigitVal(ex_filename[i + 1]) >= 1 ) =>
                ex_result = [kind |-> "date",
                             date |-> [m |-> DigitVal(ex_filename[i]),
                                       d |-> DigitVal(ex_filename[i + 1])],
                             log |-> ""]

C15_Witness ==
    /\ Called
    /\ ex_result.kind = "date"
    /\ ex_result.date = [m |-> 1, d |-> 2]
    /\ ex_result.log = ""

\* C16: the call returns None with "no match found" when the pattern is not found, None
\* with "fail to convert date" when it is found and a group is out of range, and it
\* returns None in no other case
C16_NoneInExactlyTwoCases ==
    Called =>
        LET f == ex_filename
            found == \E i \in 1..MaxNameLen : FoundAt(f, i)
            outOfRange == \E i \in 1..MaxNameLen :
                             /\ FoundAt(f, i)
                             /\ DigitVal(f[i]) = 0 \/ DigitVal(f[i + 1]) = 0
        IN  /\ ~found => ex_result.kind = "none" /\ ex_result.log = "no match found"
            /\ (outOfRange /\ ex_format = Format) =>
                  ex_result.kind = "none" /\ ex_result.log = "fail to convert date"
            /\ ex_result.kind = "none" => ~found \/ (outOfRange /\ ex_format = Format)

C16_Witness ==
    /\ Called
    /\ ex_result.kind = "none"
    /\ ex_result.log = "fail to convert date"
    /\ \E i \in 1..MaxNameLen : FoundAt(ex_filename, i) /\ DigitVal(ex_filename[i]) = 0

\* C17: a run on a prefix without any object submits no task, issues no copy and no
\* delete, stores nothing, and if its listing call returns it ends after that one call
C17_EmptyPrefixRun ==
    Keys0 = {} =>
        /\ submitted = 0 /\ futures = <<>> /\ pages = 0 /\ yielded = {}
        /\ \A x \in DestKeys : dst[x] = 0
        /\ src = src0
        /\ ~moveFailed /\ ~classRaised
        /\ listCalls <= 1
        /\ (pc = "done" /\ ~listFailed) => (listCalls = 1 /\ is_empty /\ exit_code = 0)

C17_Witness ==
    /\ Keys0 = {}
    /\ pc = "done"
    /\ listCalls = 1
    /\ ~listFailed
    /\ submitted = 0

\* C18: a yielded page is not empty and holds real files only; a listing without a real
\* file ends the enumeration, and nothing is listed after it; a prefix without a real
\* file yields no page
C18_PagesHoldRealFiles ==
    /\ pc \in {"classify", "wait"} => Len(files) >= 1
    /\ (pages >= 1 /\ pc # "crashed") => Len(files) >= 1
    /\ \A i \in 1..Len(files) : src0[files[i]] = "file"
    /\ yielded \subseteq Files0
    /\ is_empty => pc \in {"shutdown", "returned", "done", "crashed"}
    /\ is_empty => listCalls = pages + 1
    /\ (listCalls > pages /\ ~listFailed) => is_empty
    /\ Files0 = {} => pages = 0

C18_Witness ==
    /\ pc = "classify"
    /\ Len(files) >= 1
    /\ \E k \in SrcKeys : src[k] = "marker" /\ k < files[1]

\* C19 as stated: in a run without a failed list, copy or delete call (and without a
\* classification exception), with at most n_keys * n_loops real files under the
\* prefix, every file has left the source prefix when the run ends
C19_AllFilesMoved ==
    ( /\ pc = "done"
      /\ ~listFailed /\ ~moveFailed /\ ~classRaised
      /\ Cardinality(Files0) <= n_keys * n_loops ) =>
        \A k \in Files0 : src[k] = "absent"

\* C20: no two futures of the page are for the same source object, an object is in a
\* page once, and an object is submitted at most once per page, at most n_loops times
C20_OneTaskPerObject ==
    /\ \A i, j \in Tasks : futures[i].src = futures[j].src => i = j
    /\ \A i, j \in 1..Len(files) : files[i] = files[j] => i = j
    /\ \A k \in SrcKeys : attempts[k] <= pages /\ attempts[k] <= n_loops
    /\ \A i \in Tasks : futures[i].st # "done" => pc \in {"classify", "wait", "shutdown"}

C20_Witness ==
    /\ pc = "done"
    /\ moveFailed
    /\ \E k \in SrcKeys : attempts[k] = n_loops /\ n_loops >= 2

====
